---- MODULE Spec2Model ----
(***************************************************************************)
(* Model of the Secrets Manager secret-version resource                    *)
(* (aws/resource_aws_secretsmanager_secret_version.go): Create, Read,      *)
(* Update and Delete as state machines whose steps are the remote calls    *)
(* they make.  The remote store is the environment: any call may fail, and *)
(* a stage move is applied atomically or rejected.                         *)
(***************************************************************************)
EXTENDS Integers, Sequences, FiniteSets, TLC

\* ------------------------------------------------------------------ bounds
NumVersions == 3      \* versions in the secret's history
MaxPageSize == 2      \* largest page the listing returns
MaxAttempts == 3      \* GetSecretValue attempts that fit in the retry window
MaxRuns == 2          \* consecutive Update calls on the same resource
MaxIdLen == 3         \* longest resource id handed to a handler

\* --------------------------------------------------------------- constants
Nil == 0              \* a nil *string version id
NoToken == 0          \* a nil NextToken
Chars == {"s", "v", "|"}   \* characters of a resource id
Versions == 1..NumVersions
Labels == {"AWSCURRENT", "AWSPREVIOUS", "STAGING"}
Absence == {"notfound", "deleted"}
Errors == {"notfound", "deleted", "other"}

VARIABLES
  store,        \* remote: label -> the versions holding it
  pageSize,     \* remote: versions per listing page
  op,           \* the CRUD handler being run
  run,          \* ordinal of the handler invocation on this resource
  pc,           \* position inside the handler
  id,           \* d.Id(): "secret|version" or ""
  versionID,    \* version part of the resource id
  isNew,        \* d.IsNewResource()
  observed,     \* version_stages in state (old value of GetChange)
  desired,      \* version_stages in configuration (new value of GetChange)
  recorded,     \* payload, version_id and arn have been d.Set from a response
  stagesToAdd, stagesToRemove, \* the plan, as iterated lists
  ai, ri,       \* loop positions in stagesToAdd / stagesToRemove
  describedSecret,             \* describedSecret != nil
  awsCurrentStageVersionID,    \* Locator result
  awsPreviousVersionID,        \* removal target
  nextToken,    \* token of the next ListSecretVersionIds request
  input,        \* UpdateSecretVersionStageInput being built
  resultErr,    \* resource.Retry: error of the last attempt that returned
  windowElapsed, \* resource.Retry: the propagation timeout has elapsed
  calls,        \* remote calls issued by this invocation, in order
  result,       \* "none" while running, then "ok", "error" or "panic"
  errCtx,       \* context the returned error names
  decoded,      \* secretID, versionID, err of decodeSecretsManagerSecretVersionID
  finalAttempt, \* Read, line 144: the attempt after the timeout was made
  pc2, version2, token2, located2  \* a second caller's Update of the same secret

remote == <<store, pageSize>>
resource == <<id, versionID, isNew, observed, desired, recorded>>
locals == <<stagesToAdd, stagesToRemove, ai, ri, describedSecret,
            awsCurrentStageVersionID, awsPreviousVersionID, nextToken, input, resultErr,
            windowElapsed>>
peer == <<pc2, version2, token2, located2>>
caller == <<op, run, pc, resource, locals, calls, result, errCtx, decoded, finalAttempt>>
vars == <<store, pageSize, op, run, pc, id, versionID, isNew, observed, desired,
          recorded, stagesToAdd, stagesToRemove, ai, ri, describedSecret,
          awsCurrentStageVersionID, awsPreviousVersionID, nextToken, input,
          resultErr, windowElapsed, calls, result, errCtx, decoded, finalAttempt,
          pc2, version2, token2, located2>>

\* ----------------------------------------------------------------- helpers
Range(s) == {s[k] : k \in 1..Len(s)}

\* schema.Set.List(): the elements of a set in some fixed order
ListsOf(S) == {s \in [1..Cardinality(S) -> S] : Range(s) = S}

NoCtx == [secret |-> <<>>, stage |-> ""]
NoInput == [label |-> "", moveTo |-> Nil, removeFrom |-> Nil]

Call(api, label, moveTo, removeFrom, token, resp) ==
  [api |-> api, label |-> label, moveTo |-> moveTo, removeFrom |-> removeFrom,
   token |-> token, resp |-> resp]

\* ------------------------------------------------------------ remote store
HeldLabels(st, v) == {l \in Labels : v \in st[l]}

\* a staging label is attached to at most one version of the secret
AtMostOne == {{}} \cup {{v} : v \in Versions}

\* The store applies a stage move atomically or rejects it.
StoreAccepts_NoHolderCheck(st, in) ==
  (in.label = "AWSCURRENT" /\ st[in.label] # {}) => in.moveTo # Nil
StoreAccepts(st, in) ==
  /\ in.removeFrom # Nil => in.removeFrom \in st[in.label]
  /\ (in.label = "AWSCURRENT" /\ st[in.label] # {}) => in.moveTo # Nil
  /\ (in.moveTo # Nil /\ st[in.label] \ {in.moveTo} # {}) => in.removeFrom \in st[in.label]

StoreApply(st, in) ==
  LET moved == IF in.moveTo # Nil
               THEN [st EXCEPT ![in.label] = (@ \ {in.removeFrom}) \cup {in.moveTo}]
               ELSE [st EXCEPT ![in.label] = @ \ {in.removeFrom}]
      old == st["AWSCURRENT"] \ {in.moveTo}
  IN IF in.label = "AWSCURRENT" /\ in.moveTo # Nil /\ old # {}
     THEN [moved EXCEPT !["AWSPREVIOUS"] = old]
     ELSE moved

StageResponses(st, in) == Errors \cup (IF StoreAccepts(st, in) THEN {"ok"} ELSE {})

\* listing: versions in history order, pageSize per page; the token is the offset
PageVersions(token, ps) == {v \in Versions : token < v /\ v <= token + ps}
PageNextToken(token, ps) == IF token + ps < NumVersions THEN token + ps ELSE NoToken
PageFound(st, token, ps) ==
  LET holders == st["AWSCURRENT"] \cap PageVersions(token, ps)
  IN IF holders = {} THEN Nil ELSE CHOOSE v \in holders : \A w \in holders : v <= w

\* ------------------------------------------------- pieces of the handlers
\* strings.Split(s, sep) for a one-character separator
RECURSIVE Split(_, _)
Split(s, sep) ==
  LET at == {k \in 1..Len(s) : s[k] = sep}
  IN IF at = {} THEN <<s>>
     ELSE LET k == CHOOSE n \in at : \A m \in at : n <= m
          IN <<SubSeq(s, 1, k - 1)>> \o Split(SubSeq(s, k + 1, Len(s)), sep)

NoDecode == [id |-> <<>>, secretID |-> <<>>, versionID |-> <<>>, err |-> FALSE]

decodeSecretsManagerSecretVersionID_Lax(i) ==
  LET idParts == Split(i, "|")
  IN IF Len(idParts) < 2
     THEN [id |-> i, secretID |-> <<>>, versionID |-> <<>>, err |-> TRUE]
     ELSE [id |-> i, secretID |-> idParts[1], versionID |-> idParts[2], err |-> FALSE]
decodeSecretsManagerSecretVersionID(i) ==
  LET idParts == Split(i, "|")
  IN IF Len(idParts) # 2
     THEN [id |-> i, secretID |-> <<>>, versionID |-> <<>>, err |-> TRUE]
     ELSE [id |-> i, secretID |-> idParts[1], versionID |-> idParts[2], err |-> FALSE]

\* Create, line 103: fmt.Sprintf("%s|%s", secretID, VersionId)
EncodeID(secret, version) == secret \o <<"|">> \o version

SecretAttr == <<"s">>     \* the secret_id attribute
VersionName == <<"v">>    \* the VersionId the store returns
EncodedID == EncodeID(SecretAttr, VersionName)

\* the secretID a handler works with after decoding its id
secretID == decoded.secretID

IdStrings == UNION {[1..n -> Chars] : n \in 0..MaxIdLen}

Difference(s, other) == {x \in s : x \notin other}

StagesToAddSet_Swapped(os, ns) == Difference(os, ns)
StagesToAddSet(os, ns) == Difference(ns, os)
StagesToRemoveSet(os, ns) == Difference(os, ns)

InitialPreviousVersionID_Nil(v) == Nil
InitialPreviousVersionID(v) == v

AddInput(stage) == [label |-> stage, moveTo |-> versionID, removeFrom |-> Nil]
RemoveInput(stage, from) == [label |-> stage, moveTo |-> Nil, removeFrom |-> from]

NeedsLocator_AnyStage(stage, described) == ~described
NeedsLocator(stage, described) == stage = "AWSCURRENT" /\ ~described

WithRemoveFrom_Dropped(in, v) == in
WithRemoveFrom(in, v) == [in EXCEPT !.removeFrom = v]

ScanContinues_NoBreak(found, outToken) == outToken # NoToken
ScanContinues(found, outToken) == found = Nil /\ outToken # NoToken

AdvanceToken_Kept(token, outToken) == token
AdvanceToken(token, outToken) == outToken

SkipStage_Never(stage) == FALSE
SkipStage_Always(stage) == TRUE
SkipStage(stage) == stage = "AWSCURRENT"

CallFailed_Ignored(resp) == FALSE
CallFailed(resp) == resp # "ok"

IsRetryable_Never(new, err) == FALSE
IsRetryable_Always(new, err) == err \in Absence
IsRetryable_AnyError(new, err) == new /\ err \in Errors
IsRetryable(new, err) == new /\ err \in Absence

TimedOut(err) == err = "timeout"

\* Delete, lines 311-316: errors of a removal that Delete takes as success
DeleteTolerates_Nothing(resp) == FALSE
DeleteTolerates(resp) == resp \in Absence

\* index of the first stage at or after k that the removal loop does not skip
NextRemoval(rems, k) ==
  LET c == {n \in k..Len(rems) : ~SkipStage(rems[n])}
  IN IF c = {} THEN Len(rems) + 1 ELSE CHOOSE n \in c : \A m \in c : n <= m

Attempts(cs) == Cardinality({k \in 1..Len(cs) : cs[k].api = "GetSecretValue"})

\* ------------------------------------------------------------ initial state
InitResource(ids) ==
  /\ versionID \in Versions
  /\ op \in {"Create", "Read", "Update", "Delete"}
  /\ IF op = "Create"
     THEN /\ HeldLabels(store, versionID) = {}
          /\ id = <<>> /\ isNew = TRUE /\ recorded = FALSE
          /\ observed = {}
          /\ desired \in SUBSET Labels
     ELSE /\ id \in ids /\ isNew = FALSE /\ recorded = TRUE
          /\ observed = HeldLabels(store, versionID)
          /\ desired \in (IF op = "Update" THEN SUBSET Labels ELSE {observed})

InitLocals ==
  /\ run = 1
  /\ pc = "start"
  /\ decoded = NoDecode
  /\ finalAttempt = FALSE
  /\ stagesToAdd = <<>> /\ stagesToRemove = <<>>
  /\ ai = 1 /\ ri = 1
  /\ describedSecret = FALSE
  /\ awsCurrentStageVersionID = Nil
  /\ awsPreviousVersionID = Nil
  /\ nextToken = NoToken
  /\ input = NoInput
  /\ resultErr = "nil"
  /\ windowElapsed = FALSE
  /\ calls = <<>>
  /\ result = "none"
  /\ errCtx = NoCtx

InitNoPeer ==
  /\ pc2 = "idle" /\ version2 = Nil /\ token2 = NoToken /\ located2 = Nil

Init ==
  /\ store \in [Labels -> AtMostOne]
  /\ pageSize \in 1..MaxPageSize
  /\ InitResource({EncodedID})
  /\ InitLocals
  /\ InitNoPeer

\* the id of an imported resource is whatever string the user passed
\* (schema.ImportStatePassthrough)
InitID ==
  /\ store = [l \in Labels |-> IF l = "AWSCURRENT" THEN {1} ELSE IF l = "STAGING" THEN {2} ELSE {}]
  /\ pageSize = 1
  /\ InitResource(IdStrings)
  /\ InitLocals
  /\ InitNoPeer

\* lines 111-114, 183-186, 291-294: a handler returns the decode error at once
DecodeError ==
  /\ pc' = "done"
  /\ result' = "error"
  /\ errCtx' = [secret |-> id, stage |-> ""]

\* --------------------------------------------------------------- returning
Fail(stage) ==
  /\ pc' = "done"
  /\ result' = "error"
  /\ errCtx' = [secret |-> secretID, stage |-> stage]

\* Read, lines 147-177: what Read does with the error the retry left
ReadFinish(err) ==
  /\ pc' = "done"
  /\ IF ~isNew /\ err \in Absence
     THEN /\ id' = <<>> /\ result' = "ok"
          /\ UNCHANGED <<observed, recorded, errCtx>>
     ELSE IF err # "nil"
     THEN /\ result' = "error"
          /\ errCtx' = [secret |-> id, stage |-> ""]
          /\ UNCHANGED <<id, observed, recorded>>
     ELSE /\ observed' = HeldLabels(store, versionID)
          /\ recorded' = TRUE
          /\ result' = "ok"
          /\ UNCHANGED <<id, errCtx>>

\* ------------------------------------------------------------------ Update
EnterRemoveLoop(k, rems, prev) ==
  LET n == NextRemoval(rems, k) IN
  /\ ri' = n
  /\ IF n <= Len(rems)
     THEN input' = RemoveInput(rems[n], prev) /\ pc' = "remove"
     ELSE input' = NoInput /\ pc' = "get"

EnterAddLoop(k, adds, rems, prev) ==
  /\ ai' = k
  /\ IF k <= Len(adds)
     THEN /\ input' = AddInput(adds[k])
          /\ pc' = IF NeedsLocator(adds[k], describedSecret) THEN "describe" ELSE "move"
          /\ ri' = ri
     ELSE EnterRemoveLoop(1, rems, prev)

Update_Plan ==
  /\ pc = "start" /\ op = "Update"
  /\ decoded' = decodeSecretsManagerSecretVersionID(id)
  /\ IF decoded'.err
     THEN /\ DecodeError
          /\ UNCHANGED <<stagesToAdd, stagesToRemove, awsPreviousVersionID, ai, ri, input>>
     ELSE /\ \E adds \in ListsOf(StagesToAddSet(observed, desired)),
                rems \in ListsOf(StagesToRemoveSet(observed, desired)) :
               /\ stagesToAdd' = adds
               /\ stagesToRemove' = rems
               /\ awsPreviousVersionID' = InitialPreviousVersionID(versionID)
               /\ EnterAddLoop(1, adds, rems, InitialPreviousVersionID(versionID))
          /\ UNCHANGED <<result, errCtx>>
  /\ describedSecret' = FALSE
  /\ UNCHANGED <<remote, resource, op, run, awsCurrentStageVersionID, nextToken,
                 resultErr, windowElapsed, calls, finalAttempt, peer>>

DescribeSecret ==
  /\ pc = "describe"
  /\ \E resp \in {"ok"} \cup Errors :
       /\ calls' = Append(calls, Call("DescribeSecret", "", Nil, Nil, NoToken, resp))
       /\ IF CallFailed(resp)
          THEN /\ Fail(input.label)
               /\ UNCHANGED <<describedSecret, awsCurrentStageVersionID, nextToken>>
          ELSE /\ describedSecret' = TRUE
               /\ awsCurrentStageVersionID' = Nil
               /\ nextToken' = NoToken
               /\ pc' = "list"
               /\ UNCHANGED <<result, errCtx>>
  /\ UNCHANGED <<remote, resource, op, run, stagesToAdd, stagesToRemove, ai, ri,
                 awsPreviousVersionID, input, resultErr, windowElapsed>>
  /\ UNCHANGED <<decoded, finalAttempt, peer>>

ListSecretVersionIds ==
  /\ pc = "list"
  /\ \E resp \in {"ok"} \cup Errors :
       /\ calls' = Append(calls, Call("ListSecretVersionIds", "", Nil, Nil, nextToken, resp))
       /\ IF CallFailed(resp)
          THEN /\ Fail(input.label)
               /\ UNCHANGED <<awsCurrentStageVersionID, nextToken, input>>
          ELSE LET found == PageFound(store, nextToken, pageSize)
                   outToken == PageNextToken(nextToken, pageSize)
                   cur == IF found # Nil THEN found ELSE awsCurrentStageVersionID
               IN /\ awsCurrentStageVersionID' = cur
                  /\ IF ScanContinues(found, outToken)
                     THEN /\ nextToken' = AdvanceToken(nextToken, outToken)
                          /\ pc' = "list"
                          /\ UNCHANGED <<input, result, errCtx>>
                     ELSE /\ input' = WithRemoveFrom(input, cur)
                          /\ UNCHANGED <<nextToken, errCtx>>
                          /\ IF cur = Nil   \* line 250 dereferences the nil result
                             THEN pc' = "done" /\ result' = "panic"
                             ELSE pc' = "move" /\ UNCHANGED result
  /\ UNCHANGED <<remote, resource, op, run, stagesToAdd, stagesToRemove, ai, ri,
                 describedSecret, awsPreviousVersionID, resultErr, windowElapsed>>
  /\ UNCHANGED <<decoded, finalAttempt, peer>>

UpdateSecretVersionStage_Add ==
  /\ pc = "move"
  /\ \E resp \in StageResponses(store, input) :
       /\ calls' = Append(calls, Call("UpdateSecretVersionStage", input.label,
                                      input.moveTo, input.removeFrom, NoToken, resp))
       /\ store' = IF resp = "ok" THEN StoreApply(store, input) ELSE store
       /\ IF CallFailed(resp)
          THEN /\ Fail(input.label)
               /\ UNCHANGED <<ai, ri, input, awsPreviousVersionID>>
          ELSE /\ awsPreviousVersionID' = input.removeFrom
               /\ EnterAddLoop(ai + 1, stagesToAdd, stagesToRemove, input.removeFrom)
               /\ UNCHANGED <<result, errCtx>>
  /\ UNCHANGED <<pageSize, resource, op, run, stagesToAdd, stagesToRemove,
                 describedSecret, awsCurrentStageVersionID, nextToken, resultErr, windowElapsed>>
  /\ UNCHANGED <<decoded, finalAttempt, peer>>

UpdateSecretVersionStage_Remove ==
  /\ pc = "remove"
  /\ \E resp \in StageResponses(store, input) :
       /\ calls' = Append(calls, Call("UpdateSecretVersionStage", input.label,
                                      input.moveTo, input.removeFrom, NoToken, resp))
       /\ store' = IF resp = "ok" THEN StoreApply(store, input) ELSE store
       /\ IF CallFailed(resp)
          THEN /\ Fail(input.label)
               /\ UNCHANGED <<ri, input>>
          ELSE /\ EnterRemoveLoop(ri + 1, stagesToRemove, awsPreviousVersionID)
               /\ UNCHANGED <<result, errCtx>>
  /\ UNCHANGED <<pageSize, resource, op, run, stagesToAdd, stagesToRemove, ai,
                 describedSecret, awsCurrentStageVersionID, awsPreviousVersionID,
                 nextToken, resultErr, windowElapsed>>
  /\ UNCHANGED <<decoded, finalAttempt, peer>>

\* -------------------------------------------------------------------- Read
\* resource.Retry returns the error of the last attempt that returned, and a
\* TimeoutError with no LastError when no attempt returned inside the window
RetryReturn(last) == IF last = "nil" THEN "timeout" ELSE last

ReadAfterRetry(err) ==
  IF TimedOut(err)
  THEN /\ pc' = "finalGet"
       /\ UNCHANGED <<id, observed, recorded, result, errCtx>>
  ELSE ReadFinish(err)

Read_Start ==
  /\ pc = "start" /\ op = "Read"
  /\ decoded' = decodeSecretsManagerSecretVersionID(id)
  /\ IF decoded'.err
     THEN DecodeError
     ELSE pc' = "get" /\ UNCHANGED <<result, errCtx>>
  /\ UNCHANGED <<remote, resource, op, run, locals, calls, finalAttempt, peer>>

GetSecretValue ==
  /\ pc = "get"
  /\ \E resp \in {"ok", "hang"} \cup Errors :
       /\ calls' = Append(calls, Call("GetSecretValue", "", Nil, Nil, NoToken, resp))
       /\ IF resp = "hang"
          THEN /\ windowElapsed' = TRUE
               /\ UNCHANGED resultErr
               /\ ReadAfterRetry(RetryReturn(resultErr))
          ELSE IF IsRetryable(isNew, resp)
          THEN /\ resultErr' = resp
               /\ \E elapsed \in BOOLEAN :
                    /\ ~elapsed => Attempts(calls') < MaxAttempts
                    /\ windowElapsed' = elapsed
                    /\ IF elapsed
                       THEN ReadAfterRetry(RetryReturn(resp))
                       ELSE /\ pc' = "get"
                            /\ UNCHANGED <<id, observed, recorded, result, errCtx>>
          ELSE /\ resultErr' = IF resp = "ok" THEN "nil" ELSE resp
               /\ UNCHANGED windowElapsed
               /\ ReadFinish(IF resp = "ok" THEN "nil" ELSE resp)
  /\ UNCHANGED <<remote, op, run, versionID, isNew, desired, stagesToAdd, stagesToRemove,
                 ai, ri, describedSecret, awsCurrentStageVersionID,
                 awsPreviousVersionID, nextToken, input>>
  /\ UNCHANGED <<decoded, finalAttempt, peer>>

GetSecretValue_Final ==
  /\ pc = "finalGet"
  /\ \E resp \in {"ok"} \cup Errors :
       /\ calls' = Append(calls, Call("GetSecretValue", "", Nil, Nil, NoToken, resp))
       /\ ReadFinish(IF resp = "ok" THEN "nil" ELSE resp)
  /\ finalAttempt' = TRUE
  /\ UNCHANGED <<remote, op, run, versionID, isNew, desired, locals, decoded, peer>>

\* ------------------------------------------------------------------ Delete
EnterDeleteLoop(k, rems) ==
  LET n == NextRemoval(rems, k) IN
  /\ ri' = n
  /\ IF n <= Len(rems)
     THEN /\ input' = RemoveInput(rems[n], versionID)
          /\ pc' = "delete"
          /\ UNCHANGED result
     ELSE /\ input' = NoInput
          /\ pc' = "done"
          /\ result' = "ok"

Delete_Start ==
  /\ pc = "start" /\ op = "Delete"
  /\ decoded' = decodeSecretsManagerSecretVersionID(id)
  /\ IF decoded'.err
     THEN /\ DecodeError
          /\ UNCHANGED <<stagesToRemove, ri, input>>
     ELSE /\ \E rems \in ListsOf(observed) :
               /\ stagesToRemove' = rems
               /\ EnterDeleteLoop(1, rems)
          /\ UNCHANGED errCtx
  /\ UNCHANGED <<remote, resource, op, run, stagesToAdd, ai, describedSecret,
                 awsCurrentStageVersionID, awsPreviousVersionID, nextToken,
                 resultErr, windowElapsed, calls, finalAttempt, peer>>

Delete_UpdateSecretVersionStage ==
  /\ pc = "delete"
  /\ \E resp \in StageResponses(store, input) :
       /\ calls' = Append(calls, Call("UpdateSecretVersionStage", input.label,
                                      input.moveTo, input.removeFrom, NoToken, resp))
       /\ store' = IF resp = "ok" THEN StoreApply(store, input) ELSE store
       /\ IF CallFailed(resp)
          THEN IF DeleteTolerates(resp)
               THEN /\ pc' = "done" /\ result' = "ok"
                    /\ UNCHANGED <<ri, input, errCtx>>
               ELSE /\ Fail(input.label)
                    /\ UNCHANGED <<ri, input>>
          ELSE /\ EnterDeleteLoop(ri + 1, stagesToRemove)
               /\ UNCHANGED errCtx
  /\ UNCHANGED <<pageSize, resource, op, run, stagesToAdd, stagesToRemove, ai,
                 describedSecret, awsCurrentStageVersionID, awsPreviousVersionID,
                 nextToken, resultErr, windowElapsed>>
  /\ UNCHANGED <<decoded, finalAttempt, peer>>

\* ------------------------------------------------------------------ Create
\* PutSecretValue attaches the given stages (AWSCURRENT when none is given)
\* to the new version
PutStages(st, v, stages) ==
  LET labs == IF stages = {} THEN {"AWSCURRENT"} ELSE stages
  IN [l \in Labels |->
        IF l \in labs THEN {v}
        ELSE IF l = "AWSPREVIOUS" /\ "AWSCURRENT" \in labs /\ st["AWSCURRENT"] # {}
        THEN st["AWSCURRENT"]
        ELSE st[l]]

Create_PutSecretValue ==
  /\ pc = "start" /\ op = "Create"
  /\ \E base64ok \in BOOLEAN, resp \in {"ok"} \cup Errors :
       IF ~base64ok
       THEN /\ pc' = "done" /\ result' = "error"
            /\ errCtx' = NoCtx
            /\ UNCHANGED <<store, id, calls, decoded>>
       ELSE /\ calls' = Append(calls, Call("PutSecretValue", "", versionID, Nil, NoToken, resp))
            /\ IF resp # "ok"
               THEN /\ pc' = "done" /\ result' = "error"
                    /\ errCtx' = NoCtx
                    /\ UNCHANGED <<store, id, decoded>>
               ELSE /\ store' = PutStages(store, versionID, desired)
                    /\ id' = EncodeID(SecretAttr, VersionName)
                    /\ decoded' = decodeSecretsManagerSecretVersionID(id')
                    /\ IF decoded'.err
                       THEN /\ pc' = "done" /\ result' = "error"
                            /\ errCtx' = [secret |-> id', stage |-> ""]
                       ELSE pc' = "get" /\ UNCHANGED <<result, errCtx>>
  /\ UNCHANGED <<pageSize, versionID, isNew, observed, desired, recorded, op, run, locals,
                 finalAttempt, peer>>

\* ------------------------------------------- a later Update of the resource
Rerun ==
  /\ op = "Update" /\ pc = "done" /\ result = "ok" /\ id # <<>>
  /\ run < MaxRuns
  /\ run' = run + 1
  /\ pc' = "start"
  /\ stagesToAdd' = <<>> /\ stagesToRemove' = <<>>
  /\ ai' = 1 /\ ri' = 1
  /\ describedSecret' = FALSE
  /\ awsCurrentStageVersionID' = Nil
  /\ awsPreviousVersionID' = Nil
  /\ nextToken' = NoToken
  /\ input' = NoInput
  /\ resultErr' = "nil"
  /\ windowElapsed' = FALSE
  /\ calls' = <<>>
  /\ result' = "none"
  /\ errCtx' = NoCtx
  /\ finalAttempt' = FALSE
  /\ UNCHANGED <<remote, resource, op, decoded, peer>>

Next ==
  \/ Update_Plan
  \/ DescribeSecret
  \/ ListSecretVersionIds
  \/ UpdateSecretVersionStage_Add
  \/ UpdateSecretVersionStage_Remove
  \/ Read_Start
  \/ GetSecretValue
  \/ GetSecretValue_Final
  \/ Delete_Start
  \/ Delete_UpdateSecretVersionStage
  \/ Create_PutSecretValue
  \/ Rerun

Spec == Init /\ [][Next]_vars

\* ------------------------------------ a second Update of the same secret
\* Another caller runs the same Update code for version2 of the secret, with
\* AWSCURRENT in its stagesToAdd: lines 205-252 locate the holder, lines
\* 257-260 move the label.  The two callers share nothing but the store and
\* interleave at their remote calls.
PeerInput == [label |-> "AWSCURRENT", moveTo |-> version2, removeFrom |-> Nil]

Peer_DescribeSecret ==
  /\ pc2 = "describe"
  /\ \E resp \in {"ok"} \cup Errors :
       IF CallFailed(resp)
       THEN pc2' = "done" /\ UNCHANGED <<token2, located2>>
       ELSE pc2' = "list" /\ token2' = NoToken /\ located2' = Nil
  /\ UNCHANGED <<remote, caller, version2>>

Peer_ListSecretVersionIds ==
  /\ pc2 = "list"
  /\ \E resp \in {"ok"} \cup Errors :
       IF CallFailed(resp)
       THEN pc2' = "done" /\ UNCHANGED <<token2, located2>>
       ELSE LET found == PageFound(store, token2, pageSize)
                outToken == PageNextToken(token2, pageSize)
                cur == IF found # Nil THEN found ELSE located2
            IN /\ located2' = cur
               /\ IF ScanContinues(found, outToken)
                  THEN token2' = AdvanceToken(token2, outToken) /\ pc2' = "list"
                  ELSE /\ UNCHANGED token2
                       /\ pc2' = IF cur = Nil THEN "done" ELSE "move"
  /\ UNCHANGED <<remote, caller, version2>>

Peer_UpdateSecretVersionStage ==
  /\ pc2 = "move"
  /\ LET in == WithRemoveFrom(PeerInput, located2)
     IN \E resp \in StageResponses(store, in) :
          store' = IF resp = "ok" THEN StoreApply(store, in) ELSE store
  /\ pc2' = "done"
  /\ UNCHANGED <<pageSize, caller, version2, token2, located2>>

InitConc ==
  /\ store \in [Labels -> AtMostOne]
  /\ store["AWSCURRENT"] # {}
  /\ pageSize \in 1..MaxPageSize
  /\ InitResource({EncodedID})
  /\ op = "Update"
  /\ InitLocals
  /\ pc2 = "describe" /\ version2 \in Versions /\ token2 = NoToken /\ located2 = Nil

NextConc ==
  \/ Update_Plan
  \/ DescribeSecret
  \/ ListSecretVersionIds
  \/ UpdateSecretVersionStage_Add
  \/ UpdateSecretVersionStage_Remove
  \/ GetSecretValue
  \/ GetSecretValue_Final
  \/ Peer_DescribeSecret
  \/ Peer_ListSecretVersionIds
  \/ Peer_UpdateSecretVersionStage

\* two Updates of one secret, interleaved at their remote calls
SpecConc == InitConc /\ [][NextConc]_vars

\* the handlers on every id string up to MaxIdLen, on one secret
SpecID == InitID /\ [][Next]_vars

TypeOK ==
  /\ store \in [Labels -> SUBSET Versions]
  /\ pc \in {"start", "describe", "list", "move", "remove", "get", "finalGet", "delete", "done"}
  /\ result \in {"none", "ok", "error", "panic"}
  /\ (pc = "done") = (result # "none")

\* ------------------------------------------------------------------ claims
Last(cs) == cs[Len(cs)]
CallsOf(api) == {k \in 1..Len(calls) : calls[k].api = api}
StageCalls == CallsOf("UpdateSecretVersionStage")
CurrentCalls == {k \in StageCalls : calls[k].label = "AWSCURRENT"}
UpdateAPIs == {"DescribeSecret", "ListSecretVersionIds", "UpdateSecretVersionStage"}
InUpdateBody == op = "Update" /\ pc \in {"describe", "list", "move", "remove", "get", "finalGet"}

\* C1: Update and Delete never issue an UpdateSecretVersionStage call that
\* names AWSCURRENT without a MoveToVersionId; AWSCURRENT in the removal
\* list is skipped, and the handler returns an error only when a remote call
\* has failed, never because of the skipped label.
C1_NoBareRemovalOfCurrent ==
  /\ \A k \in CurrentCalls : calls[k].moveTo # Nil
  /\ (op \in {"Update", "Delete"} /\ result = "error")
        => (calls # <<>> /\ Last(calls).resp # "ok")

C1_Witness ==
  /\ op = "Update" /\ pc = "done" /\ result = "ok"
  /\ "AWSCURRENT" \in Range(stagesToRemove)
  /\ Len(stagesToRemove) = 2
  /\ Cardinality(StageCalls) = 1

\* C2: after a successful Update the reconciled version holds exactly the
\* desired labels, so the next Update (observed read back, same desired)
\* plans nothing and issues no stage call.
C2_Idempotent ==
  /\ (op = "Update" /\ run = 1 /\ pc = "done" /\ result = "ok" /\ id # <<>>)
        => HeldLabels(store, versionID) = desired
  /\ (op = "Update" /\ run > 1 /\ pc # "start")
        => (stagesToAdd = <<>> /\ stagesToRemove = <<>> /\ StageCalls = {})

\* C3: with AWSCURRENT in toAdd, at most one stage call names AWSCURRENT, it
\* moves the label to the reconciled version from the version the Locator
\* found, and once the additions are through exactly one such call was made.
C3_SingleMoveForCurrent ==
  (op = "Update" /\ "AWSCURRENT" \in Range(stagesToAdd)) =>
    /\ Cardinality(CurrentCalls) <= 1
    /\ \A k \in CurrentCalls :
         /\ calls[k].moveTo = versionID
         /\ calls[k].removeFrom # Nil
         /\ calls[k].removeFrom = awsCurrentStageVersionID
         /\ calls[k].resp = "ok" => store["AWSCURRENT"] = {versionID}
    /\ ai > Len(stagesToAdd) => Cardinality(CurrentCalls) = 1

C3_Witness ==
  /\ op = "Update" /\ pc = "done" /\ result = "ok"
  /\ stagesToAdd = <<"AWSCURRENT">> /\ stagesToRemove = <<>>
  /\ versionID = 2
  /\ Cardinality(StageCalls) = 1
  /\ \E k \in CurrentCalls : calls[k].moveTo = 2 /\ calls[k].removeFrom = 1

\* C4: the plan is the exact two-way difference of observed and desired:
\* toAdd = desired \ observed, toRemove = observed \ desired, the two are
\* disjoint, and applying them to observed gives desired.
C4_PlanExact ==
  InUpdateBody =>
    LET toAdd == Range(stagesToAdd)
        toRemove == Range(stagesToRemove)
    IN /\ toAdd = desired \ observed
       /\ toRemove = observed \ desired
       /\ toAdd \cap toRemove = {}
       /\ (observed \ toRemove) \cup toAdd = desired
       /\ Len(stagesToAdd) = Cardinality(toAdd)
       /\ Len(stagesToRemove) = Cardinality(toRemove)
       /\ (observed = {} /\ desired = {}) => (stagesToAdd = <<>> /\ stagesToRemove = <<>>)

C4_Witness ==
  /\ InUpdateBody
  /\ Len(stagesToAdd) = 2 /\ Len(stagesToRemove) = 1

\* C5: the Locator issues no ListSecretVersionIds request after a page that
\* contained the AWSCURRENT holder, and its result is that holder.
C5_LocatorEarlyExit ==
  /\ pc = "list" =>
       \A k \in CallsOf("ListSecretVersionIds") :
          store["AWSCURRENT"] \cap PageVersions(calls[k].token, pageSize) = {}
  /\ \A k \in CallsOf("ListSecretVersionIds") :
       (calls[k].resp = "ok" /\ awsCurrentStageVersionID \in PageVersions(calls[k].token, pageSize))
          => \A m \in CallsOf("ListSecretVersionIds") : m <= k
  /\ (pc = "move" /\ input.label = "AWSCURRENT")
       => store["AWSCURRENT"] = {awsCurrentStageVersionID}

C5_Witness ==
  /\ pc = "move" /\ input.label = "AWSCURRENT"
  /\ PageNextToken(NoToken, pageSize) # NoToken
  /\ awsCurrentStageVersionID \in PageVersions(NoToken, pageSize)
  /\ Cardinality(CallsOf("ListSecretVersionIds")) = 1

\* C6: when no version carries AWSCURRENT, the Locator scans every page and
\* completes with no holder; the Update that invoked it is not aborted.
C6_NoHolderCompletes ==
  (/\ op = "Update" /\ pc # "list"
   /\ CallsOf("ListSecretVersionIds") # {}
   /\ Last(calls).api = "ListSecretVersionIds" /\ Last(calls).resp = "ok"
   /\ awsCurrentStageVersionID = Nil)
     => result # "panic"

\* C7: with nothing to add, every stage call of Update removes a label of
\* toRemove other than AWSCURRENT from the reconciled version, with no
\* MoveToVersionId, at most once per label, and once the removals are
\* through every such label has had its call.
C7_RemovalsWhenNoAdditions ==
  (op = "Update" /\ pc # "start" /\ stagesToAdd = <<>>) =>
    /\ \A k \in StageCalls :
         /\ calls[k].removeFrom = versionID
         /\ calls[k].moveTo = Nil
         /\ calls[k].label \in Range(stagesToRemove) \ {"AWSCURRENT"}
         /\ \A m \in StageCalls : calls[m].label = calls[k].label => m = k
    /\ ri > Len(stagesToRemove) =>
         {calls[k].label : k \in StageCalls} = Range(stagesToRemove) \ {"AWSCURRENT"}

C7_Witness ==
  /\ op = "Update" /\ pc = "done" /\ result = "ok"
  /\ stagesToAdd = <<>> /\ stagesToRemove = <<"STAGING">>
  /\ Cardinality(StageCalls) = 1
  /\ \E k \in StageCalls : calls[k].removeFrom = versionID /\ calls[k].resp = "ok"

\* C8: for a new resource, an absence error inside the retry window is
\* followed by another GetSecretValue attempt, and a Read whose last attempt
\* succeeded returns success with the response recorded.
C8_NewResourceRetries ==
  (isNew /\ calls # <<>> /\ Last(calls).api = "GetSecretValue") =>
    /\ (Last(calls).resp \in Absence /\ ~windowElapsed) => pc = "get"
    /\ Last(calls).resp = "ok" =>
         /\ pc = "done" /\ result = "ok" /\ errCtx = NoCtx
         /\ recorded /\ id = EncodedID
         /\ observed = HeldLabels(store, versionID)

C8_Witness ==
  /\ isNew /\ pc = "done" /\ result = "ok" /\ ~windowElapsed
  /\ Attempts(calls) = 3
  /\ calls[Len(calls) - 2].resp = "notfound"
  /\ calls[Len(calls) - 1].resp = "notfound"
  /\ Last(calls).resp = "ok"

\* C9: for a pre-existing resource an absence error from GetSecretValue is
\* not retried: it ends the Read, which clears the resource id and returns
\* success.
C9_ExistingAbsenceDropsResource ==
  ~isNew =>
    \A k \in CallsOf("GetSecretValue") :
       calls[k].resp \in Absence =>
          /\ k = Len(calls)
          /\ (k = 1 \/ calls[k - 1].api # "GetSecretValue" \/ calls[k - 1].resp = "hang")
          /\ pc = "done" /\ result = "ok" /\ id = <<>>

C9_Witness ==
  /\ op = "Read" /\ ~isNew /\ pc = "done" /\ result = "ok" /\ id = <<>>
  /\ Attempts(calls) = 1
  /\ Last(calls).resp = "deleted"

\* C10: a failed DescribeSecret, ListSecretVersionIds or
\* UpdateSecretVersionStage call of Update is the last remote call of that
\* Update, which returns an error naming the secret and the stage being
\* processed.
C10_FailureStopsUpdate ==
  op = "Update" =>
    \A k \in 1..Len(calls) :
       (calls[k].api \in UpdateAPIs /\ calls[k].resp # "ok") =>
          /\ k = Len(calls)
          /\ pc = "done" /\ result = "error"
          /\ errCtx = [secret |-> secretID,
                       stage |-> IF calls[k].api = "UpdateSecretVersionStage"
                                 THEN calls[k].label ELSE "AWSCURRENT"]

C10_Witness ==
  /\ op = "Update" /\ pc = "done" /\ result = "error"
  /\ Len(calls) = 2
  /\ calls[1].api = "UpdateSecretVersionStage" /\ calls[1].resp = "ok"
  /\ calls[2].api = "UpdateSecretVersionStage" /\ calls[2].resp = "other"
  /\ calls[1].label \in HeldLabels(store, versionID)

\* C11: every stage call of Delete removes a label the version holds, other
\* than AWSCURRENT, from the version being deleted with no MoveToVersionId,
\* once per label; with no failed call every such label gets its call and
\* AWSCURRENT stays; an absence error ends Delete with success, any other
\* error with that error.
C11_DeleteRemovesAllButCurrent ==
  (op = "Delete" /\ pc # "start") =>
    /\ \A k \in StageCalls :
         /\ calls[k].removeFrom = versionID
         /\ calls[k].moveTo = Nil
         /\ calls[k].label \in Range(stagesToRemove) \ {"AWSCURRENT"}
         /\ \A m \in StageCalls : calls[m].label = calls[k].label => m = k
         /\ calls[k].resp # "ok" => k = Len(calls)
    /\ (pc = "done" /\ (calls = <<>> \/ Last(calls).resp = "ok")) =>
         /\ result = "ok"
         /\ {calls[k].label : k \in StageCalls} = Range(stagesToRemove) \ {"AWSCURRENT"}
         /\ HeldLabels(store, versionID) = Range(stagesToRemove) \cap {"AWSCURRENT"}
    /\ (calls # <<>> /\ Last(calls).resp \in Absence) => (pc = "done" /\ result = "ok")
    /\ (calls # <<>> /\ Last(calls).resp = "other") =>
         (pc = "done" /\ result = "error"
          /\ errCtx = [secret |-> secretID, stage |-> Last(calls).label])

C11_Witness ==
  /\ op = "Delete" /\ pc = "done" /\ result = "ok"
  /\ Len(stagesToRemove) = 3
  /\ Cardinality(StageCalls) = 2
  /\ \A k \in StageCalls : calls[k].resp = "ok"
  /\ HeldLabels(store, versionID) = {"AWSCURRENT"}

Bars(i) == Cardinality({k \in 1..Len(i) : i[k] = "|"})
NoBarStrings == {x \in IdStrings : Bars(x) = 0}

\* C12: decoding secretID + "|" + versionID gives back (secretID, versionID)
\* when neither contains '|', and decoding fails for every id that does not
\* contain exactly one '|'; the id Create sets decodes to what it was built
\* from.
C12_IDRoundTrip ==
  decoded # NoDecode =>
    /\ Bars(decoded.id) # 1 => decoded.err
    /\ \A sec \in NoBarStrings, ver \in NoBarStrings :
         decoded.id = EncodeID(sec, ver) =>
            (~decoded.err /\ decoded.secretID = sec /\ decoded.versionID = ver)
    /\ (op = "Create" /\ id # <<>>) =>
         decoded = [id |-> id, secretID |-> SecretAttr, versionID |-> VersionName, err |-> FALSE]

C12_Witness ==
  /\ op = "Update" /\ pc # "start"
  /\ decoded.id = <<"v", "|", "s">>
  /\ decoded.secretID = <<"v">> /\ decoded.versionID = <<"s">>
  /\ ~decoded.err

\* C13: an id that does not split on '|' into exactly two non-empty parts
\* is rejected: Read, Update and Delete return the decode error without
\* issuing a remote call.
C13_EmptyPartsRejected ==
  (op \in {"Read", "Update", "Delete"} /\ decoded # NoDecode) =>
    LET parts == Split(decoded.id, "|")
    IN (Len(parts) # 2 \/ <<>> \in Range(parts)) =>
          (decoded.err /\ pc = "done" /\ result = "error" /\ calls = <<>>)

RemovalCalls == {k \in StageCalls : calls[k].moveTo = Nil}
Relocated == \E m \in CurrentCalls : calls[m].resp = "ok"

\* C14: every removal call of Update is addressed to the version the Locator
\* found when AWSCURRENT was relocated in this call, and to the version
\* under reconciliation otherwise, whatever was added and in whatever order.
C14_RemovalTarget ==
  op = "Update" =>
    \A k \in RemovalCalls :
       calls[k].removeFrom = IF Relocated THEN awsCurrentStageVersionID ELSE versionID

ScanStarts == {k \in CallsOf("ListSecretVersionIds") : calls[k].token = NoToken}

\* C15: within one Update the Locator scan is started at most once, only
\* when AWSCURRENT is in toAdd, and before the move call for AWSCURRENT;
\* once the additions are through with AWSCURRENT among them it was
\* started; a new Update call starts with no Locator result.
C15_LocatorOncePerUpdate ==
  /\ op = "Update" =>
       /\ Cardinality(ScanStarts) <= 1
       /\ Cardinality(CallsOf("DescribeSecret")) <= 1
       /\ ScanStarts # {} => "AWSCURRENT" \in Range(stagesToAdd)
       /\ \A m \in CurrentCalls : \E k \in ScanStarts : k < m
       /\ ("AWSCURRENT" \in Range(stagesToAdd) /\ ai > Len(stagesToAdd)) => ScanStarts # {}
  /\ pc = "start" => (~describedSecret /\ awsCurrentStageVersionID = Nil /\ calls = <<>>)

C15_Witness ==
  /\ op = "Update" /\ pc = "done" /\ result = "ok"
  /\ Len(stagesToAdd) = 2 /\ stagesToAdd[2] = "AWSCURRENT"
  /\ Cardinality(ScanStarts) = 1
  /\ CurrentCalls # {}

\* C16: for a new resource whose attempts returned absence errors until the
\* propagation timeout elapsed, Read makes one further GetSecretValue
\* attempt and its outcome is final: success, or an error with the resource
\* id kept.
C16_FinalAttemptAfterTimeout ==
  (isNew /\ pc = "done" /\ windowElapsed /\ resultErr \in Absence) =>
    /\ finalAttempt
    /\ Last(calls).api = "GetSecretValue"
    /\ Last(calls).resp = "ok" => result = "ok"
    /\ Last(calls).resp # "ok" => (result = "error" /\ id # <<>>)

OtherErrorIsFinal ==
  \A k \in CallsOf("GetSecretValue") :
     calls[k].resp = "other" =>
        (k = Len(calls) /\ pc = "done" /\ result = "error" /\ id # <<>>)

OtherErrorKeepsState ==
  (Len(calls') = Len(calls) + 1 /\ Last(calls').api = "GetSecretValue"
   /\ Last(calls').resp = "other")
     => (id' = id /\ observed' = observed /\ recorded' = recorded)

\* C17: a GetSecretValue error other than the two absence errors is not
\* retried, for new and pre-existing resources alike: the attempt that
\* returns it is the last one, Read returns the error, and the resource id
\* and the recorded attributes stay as they were.
C17_OtherErrorNotRetried == []OtherErrorIsFinal /\ [][OtherErrorKeepsState]_vars

C17_Witness ==
  /\ isNew /\ pc = "done" /\ result = "error" /\ id = EncodedID
  /\ Attempts(calls) = 1
  /\ Last(calls).api = "GetSecretValue" /\ Last(calls).resp = "other"

AddCalls == {k \in StageCalls : calls[k].moveTo # Nil}

\* C18: in every Update all the move calls for toAdd come before any removal
\* call, and the read-back GetSecretValue is issued only after every
\* addition and every removal (AWSCURRENT excepted) was made and succeeded.
C18_AddsBeforeRemovalsBeforeRead ==
  op = "Update" =>
    /\ \A a \in AddCalls, r \in RemovalCalls : a < r
    /\ \A g \in CallsOf("GetSecretValue") :
         /\ \A k \in 1..(g - 1) : calls[k].api \in UpdateAPIs => calls[k].resp = "ok"
         /\ \A k \in StageCalls : k < g
         /\ {calls[k].label : k \in AddCalls} = Range(stagesToAdd)
         /\ {calls[k].label : k \in RemovalCalls} = Range(stagesToRemove) \ {"AWSCURRENT"}

C18_Witness ==
  /\ op = "Update" /\ CallsOf("GetSecretValue") # {}
  /\ Cardinality(AddCalls) = 2 /\ RemovalCalls # {}

ListCalls == CallsOf("ListSecretVersionIds")
NumPages(ps) == (NumVersions + ps - 1) \div ps

\* C20: the Locator asks for the first page with no token and for each later
\* page with exactly the token the page before returned; it asks for no page
\* after one that came back without a token or with the AWSCURRENT holder;
\* no page is requested twice, so the scan ends within one request per page.
C20_PaginationFollowsTokens ==
  op = "Update" =>
    /\ \A k \in ListCalls :
         IF k - 1 \in ListCalls
         THEN /\ calls[k - 1].resp = "ok"
              /\ PageNextToken(calls[k - 1].token, pageSize) # NoToken
              /\ calls[k].token = PageNextToken(calls[k - 1].token, pageSize)
         ELSE calls[k].token = NoToken
    /\ (pc = "list" /\ ListCalls # {}) =>
         /\ Last(calls).api = "ListSecretVersionIds" /\ Last(calls).resp = "ok"
         /\ PageNextToken(Last(calls).token, pageSize) # NoToken
         /\ PageFound(store, Last(calls).token, pageSize) = Nil
    /\ \A j, k \in ListCalls : calls[j].token = calls[k].token => j = k
    /\ Cardinality(ListCalls) <= NumPages(pageSize)

C20_Witness ==
  /\ op = "Update" /\ pc = "move"
  /\ Cardinality(ListCalls) = NumPages(pageSize)
  /\ Cardinality(ListCalls) >= 2
  /\ PageNextToken(Last(calls).token, pageSize) = NoToken

====
